---- MODULE Spec2Model ----
(***************************************************************************)
(* Model of the GITEX registration / feedback servers.                     *)
(*                                                                         *)
(* Two server programs are modelled, selected by the variable `server`:    *)
(*   "file"  - the file-backed server (src/unnamed/part_000): in-memory    *)
(*             lists `registrations` / `feedbacks`, rewritten in full to   *)
(*             registrations.json / feedbacks.json after each push;        *)
(*   "mongo" - the MongoDB server (src/server.js): the same two variables  *)
(*             hold the Registration / Feedback collections.               *)
(*   "router" - the admin router of src/routes/feedback.js: login and the  *)
(*             two list handlers.                                          *)
(*                                                                         *)
(* Strings are sequences of one-character strings, so that toLowerCase,    *)
(* trim, includes and RegExp matching are computed, not assumed.  The      *)
(* JavaScript value `undefined` of a string-typed field is the sentinel    *)
(* Undefined.  Instants are integer clock readings (milliseconds).         *)
(*                                                                         *)
(* `client` is the admin page of the browser (src/public/api.js): its      *)
(* search box, its debounce timer, its requests in flight and the          *)
(* registrations table.  It stays closed in the server specifications.     *)
(***************************************************************************)
EXTENDS Integers, Sequences, FiniteSets, TLC

VARIABLES server, clock, registrations, feedbacks, regFile, fbFile,
          pending, req, res, acked, client

vars == <<server, clock, registrations, feedbacks, regFile, fbFile,
          pending, req, res, acked, client>>

store == <<registrations, feedbacks, regFile, fbFile, pending>>

(***************************************************************************)
(* Bounds of the model.                                                    *)
(***************************************************************************)
MaxClock == 1
MaxRecords == 2
MaxPending == 2

(***************************************************************************)
(* Strings.                                                                *)
(***************************************************************************)
Undefined == <<"undefined">>
Empty == <<>>
Blank == <<" ">>

\* JavaScript truthiness of a string-or-undefined value
Truthy(v) == v # Undefined /\ v # Empty

Falsy(v) == ~Truthy(v)

\* String.prototype.toLowerCase on the model's alphabet
LowerChar(c) == CASE c = "A" -> "a"
                  [] c = "B" -> "b"
                  [] c = "X" -> "x"
                  [] OTHER -> c

ToLowerCase(s) == [i \in 1..Len(s) |-> LowerChar(s[i])]

IsSpace(c) == c = " "

RECURSIVE TrimStart(_)
TrimStart(s) == IF s # <<>> /\ IsSpace(Head(s)) THEN TrimStart(Tail(s)) ELSE s

RECURSIVE TrimEnd(_)
TrimEnd(s) == IF s # <<>> /\ IsSpace(s[Len(s)])
              THEN TrimEnd(SubSeq(s, 1, Len(s) - 1))
              ELSE s

\* String.prototype.trim
Trim(s) == TrimEnd(TrimStart(s))

\* String.prototype.includes: t occurs in s as a contiguous substring
Includes(s, t) == \E i \in 0..(Len(s) - Len(t)) :
                     \A j \in 1..Len(t) : s[i + j] = t[j]

\* new RegExp(pattern, 'i').test(s) for patterns made of literal characters
\* and the metacharacter "." (any single character); unanchored
RegexCharMatch(p, c) == p = "." \/ LowerChar(p) = LowerChar(c)

RegexTest(pattern, s) == \E i \in 0..(Len(s) - Len(pattern)) :
                            \A j \in 1..Len(pattern) :
                               RegexCharMatch(pattern[j], s[i + j])

Range(s) == {s[i] : i \in DOMAIN s}

(***************************************************************************)
(* JSON values of the `rating` field.  Numbers are held in tenths, so that *)
(* 3.7 is Num(37) and 5 is Num(50).                                        *)
(***************************************************************************)
JsUndefined == [k |-> "undefined", n |-> 0, s |-> <<>>]
JsNull == [k |-> "null", n |-> 0, s |-> <<>>]
JsNaN == [k |-> "NaN", n |-> 0, s |-> <<>>]
Num(tenths) == [k |-> "number", n |-> tenths, s |-> <<>>]
Whole(i) == Num(10 * i)
Str(chars) == [k |-> "string", n |-> 0, s |-> chars]

Digits == <<"0", "1", "2", "3", "4", "5", "6", "7", "8", "9">>

IsDigit(c) == \E i \in DOMAIN Digits : Digits[i] = c

DigitVal(c) == (CHOOSE i \in DOMAIN Digits : Digits[i] = c) - 1

RECURSIVE DecimalValue(_)
DecimalValue(ds) == IF ds = <<>> THEN 0
                    ELSE 10 * DecimalValue(SubSeq(ds, 1, Len(ds) - 1))
                         + DigitVal(ds[Len(ds)])

RECURSIVE LeadingDigits(_)
LeadingDigits(cs) == IF cs # <<>> /\ IsDigit(Head(cs))
                     THEN <<Head(cs)>> \o LeadingDigits(Tail(cs))
                     ELSE <<>>

\* ToNumber on a string: '' and blanks are 0, an (optionally signed) run
\* of digits is its value, anything else is NaN
StringToNumber(chars) ==
    LET t == Trim(chars)
        neg == t # <<>> /\ Head(t) = "-"
        body == IF neg THEN Tail(t) ELSE t
    IN  IF t = <<>> THEN Whole(0)
        ELSE IF body # <<>> /\ LeadingDigits(body) = body
        THEN Whole(IF neg THEN 0 - DecimalValue(body) ELSE DecimalValue(body))
        ELSE JsNaN

\* the abstract operation ToNumber
ToNumber(v) == CASE v.k = "number" -> v
                 [] v.k = "string" -> StringToNumber(v.s)
                 [] v.k = "null" -> Whole(0)
                 [] OTHER -> JsNaN

\* the abstract operation ToBoolean
ToBoolean(v) == CASE v.k = "number" -> v.n # 0
                  [] v.k = "string" -> v.s # <<>>
                  [] OTHER -> FALSE

\* v < i and v > i for an integer i; comparisons with NaN are false
LessThan(v, i) == ToNumber(v).k = "number" /\ ToNumber(v).n < 10 * i

GreaterThan(v, i) == ToNumber(v).k = "number" /\ ToNumber(v).n > 10 * i

\* parseInt on a string: leading blanks are skipped, then an optional sign
\* and the longest run of digits; no digit gives NaN
ParseIntString(chars) ==
    LET t == TrimStart(chars)
        neg == t # <<>> /\ Head(t) = "-"
        ds == LeadingDigits(IF neg THEN Tail(t) ELSE t)
    IN  IF ds = <<>> THEN JsNaN
        ELSE Whole(IF neg THEN 0 - DecimalValue(ds) ELSE DecimalValue(ds))

\* parseInt(v): v is converted to a string first, so a number loses its
\* fractional part (truncation toward zero)
parseInt(v) == CASE v.k = "number" ->
                      Whole(IF v.n >= 0 THEN v.n \div 10 ELSE 0 - ((0 - v.n) \div 10))
                 [] v.k = "string" -> ParseIntString(v.s)
                 [] OTHER -> JsNaN

(***************************************************************************)
(* Request payloads (req.body after express.json()).                       *)
(***************************************************************************)
S1(a) == <<a>>
S2(a, b) == <<a, b>>
S3(a, b, c) == <<a, b, c>>

AdaBody == [firstName |-> S3("A", "d", "a"), lastName |-> S2("A", "x"),
            email |-> S3("a", "@", "x"), phone |-> S1("1"),
            location |-> S1("L"), gender |-> S1("F"), channel |-> S1("C"),
            interests |-> Undefined, otherInterest |-> Undefined,
            consent |-> FALSE]

BobBody == [firstName |-> S3("B", "o", "b"), lastName |-> S3("B", " ", "b"),
            email |-> S3("b", "@", "x"), phone |-> S1("2"),
            location |-> S1("L"), gender |-> S1("M"), channel |-> S1("C"),
            interests |-> <<"AI", "IoT">>, otherInterest |-> S1("o"),
            consent |-> TRUE]

\* the fields of a registration body that hold strings
StringFields == {"firstName", "lastName", "email", "phone", "location",
                 "gender", "channel"}

\* body with the fields of `absent` left out and those of `empty` set to ''
Without(body, absent, empty) ==
    [f \in DOMAIN body |-> IF f \in absent THEN Undefined
                           ELSE IF f \in empty THEN Empty
                           ELSE body[f]]

ThreeInterests == <<"AI", "IoT", "5G">>

\* the registration requests of the main specification
RegBodies ==
    { AdaBody, BobBody,
      [BobBody EXCEPT !.interests = ThreeInterests],
      Without(BobBody, {"phone"}, {"firstName", "channel"}) }

\* every way of leaving out or emptying the seven mandatory fields, with
\* and without too many interests
WideRegBodies ==
    { Without([BobBody EXCEPT !.interests = in], absent, empty) :
        in \in {Undefined, <<"AI", "IoT">>, ThreeInterests},
        absent \in SUBSET StringFields,
        empty \in SUBSET {"firstName", "email", "channel"} }

Good == S2("G", "d")
Okay == S2("o", "k")

FeedbackBody(f1, f2, r) == [feedback1 |-> f1, feedback2 |-> f2, rating |-> r]

\* the feedback requests of the main specification
FbBodies ==
    { FeedbackBody(Good, Okay, JsUndefined),
      FeedbackBody(Undefined, Okay, Whole(5)),
      FeedbackBody(Undefined, Empty, JsUndefined),
      FeedbackBody(Good, Undefined, Whole(6)) }

\* every combination of absent, empty, blank and real feedback texts with
\* absent, numeric, fractional and string ratings
WideFbBodies ==
    { FeedbackBody(f1, f2, r) :
        f1 \in {Undefined, Empty, Blank, Good},
        f2 \in {Undefined, Empty, Blank, Okay},
        r \in {JsUndefined, JsNull, Whole(0), Whole(-1), Whole(1), Whole(3),
               Whole(5), Whole(6), Num(37), Num(5), Num(55),
               Str(S1("5")), Str(S1("0")), Str(S2("1", "0")), Str(Blank),
               Str(S2("a", "b")), Str(S2("3", "x")), Str(S2("6", "x"))} }

(***************************************************************************)
(* State after start-up.  part_000 loadData (l.40-44) loads both lists     *)
(* from the files, or [] when a file is missing.                           *)
(***************************************************************************)
\* no admin page is open in a browser
PageClosed == [page |-> "closed"]

NoRequest == [op |-> "none"]
NoResponse == [status |-> 0]

Init ==
    /\ server \in {"file", "mongo", "router"}
    /\ clock = 0
    /\ registrations = <<>>
    /\ feedbacks = <<>>
    /\ regFile = <<>>
    /\ fbFile = <<>>
    /\ pending = {}
    /\ req = NoRequest
    /\ res = NoResponse
    /\ acked = [registrations |-> 0, feedbacks |-> 0]
    /\ client = PageClosed

\* room for one more stored record within the bounds of the model
HasRoom == Len(registrations) + Len(feedbacks) < MaxRecords

\* the wall clock advances between (not during) synchronous handler runs
Tick ==
    /\ clock < MaxClock
    /\ clock' = clock + 1
    /\ UNCHANGED <<server, client, store, req, res, acked>>

(***************************************************************************)
(* POST /api/register                                                      *)
(***************************************************************************)
required == <<"firstName", "lastName", "email", "phone", "location",
              "gender", "channel">>

\* variant: `channel` left out of the list of required fields
MissingFieldsFirstSix(body) ==
    SelectSeq(SubSeq(required, 1, 6), LAMBDA f : Falsy(body[f]))

\* required.filter(field => !req.body[field])
MissingFields(body) == SelectSeq(required, LAMBDA f : Falsy(body[f]))

\* variant: the limit off by one
TooManyInterestsOverThree(body) ==
    body.interests # Undefined /\ Len(body.interests) > 3

\* req.body.interests && req.body.interests.length > 2
TooManyInterests(body) == body.interests # Undefined /\ Len(body.interests) > 2

BadRequest(msg) == [status |-> 400, success |-> FALSE, message |-> msg]

MissingMessage(missing) == [text |-> "Missing required fields: ", fields |-> missing]

ServerError(msg) == [status |-> 500, success |-> FALSE, message |-> msg]

\* variant: the duplicate is looked up in what the file holds
existingRegistrationOnDisk(body) ==
    \E i \in DOMAIN regFile : regFile[i].email = body.email

\* registrations.find(reg => reg.email === req.body.email)
existingRegistration(body) ==
    \E i \in DOMAIN registrations : registrations[i].email = body.email

\* the registration object of part_000 l.87-100
NewRegistration(body) ==
    [id |-> clock,
     firstName |-> body.firstName, lastName |-> body.lastName,
     email |-> body.email, phone |-> body.phone,
     location |-> body.location, gender |-> body.gender,
     channel |-> body.channel,
     interests |-> IF body.interests # Undefined THEN body.interests ELSE <<>>,
     otherInterest |-> IF Truthy(body.otherInterest) THEN body.otherInterest ELSE Empty,
     consent |-> body.consent,
     timestamp |-> clock]

\* what JSON.parse reads back from JSON.stringify(data, null, 2): NaN is
\* written as null; an undefined property is left out and read as undefined
Jsonify(data) ==
    [i \in DOMAIN data |->
        IF "rating" \in DOMAIN data[i] /\ data[i].rating = JsNaN
        THEN [data[i] EXCEPT !.rating = JsNull]
        ELSE data[i]]

\* saveToFile up to its await: JSON.stringify(data) is evaluated when the
\* call is made, the write itself completes later
StartWrite(file, data, reply) ==
    pending' = pending \cup {[file |-> file, data |-> Jsonify(data),
                               reply |-> reply]}

RegisterFile(body) ==
    /\ server = "file"
    /\ req' = [op |-> "register", body |-> body]
    /\ UNCHANGED <<server, client, clock, feedbacks, regFile, fbFile, acked>>
    /\ IF MissingFields(body) # <<>>
       THEN /\ res' = BadRequest(MissingMessage(MissingFields(body)))
            /\ UNCHANGED <<registrations, pending>>
       ELSE IF TooManyInterests(body)
       THEN /\ res' = BadRequest([text |-> "Maximum 2 areas of interest allowed"])
            /\ UNCHANGED <<registrations, pending>>
       ELSE IF existingRegistration(body)
       THEN /\ res' = BadRequest([text |-> "Email already registered"])
            /\ UNCHANGED <<registrations, pending>>
       ELSE /\ HasRoom
            /\ Cardinality(pending) < MaxPending
            /\ registrations' = Append(registrations, NewRegistration(body))
            /\ StartWrite("registrations.json", registrations',
                          [success |-> TRUE,
                           message |-> [text |-> "Registration successful"],
                           id |-> clock])
            /\ res' = NoResponse

\* the continuation of saveToFile after its await, and of the handler after
\* `await saveToFile(...)`: the write error is caught and logged inside
\* saveToFile, so the handler always goes on to res.json(...)
FinishSave(w, ok) ==
    /\ server = "file"
    /\ w \in pending
    /\ pending' = pending \ {w}
    /\ IF ok /\ w.file = "registrations.json"
       THEN regFile' = w.data ELSE UNCHANGED regFile
    /\ IF ok /\ w.file = "feedbacks.json"
       THEN fbFile' = w.data ELSE UNCHANGED fbFile
    /\ req' = [op |-> "saved", file |-> w.file, written |-> ok]
    /\ res' = [status |-> 200] @@ w.reply
    /\ acked' = IF w.file = "registrations.json"
                THEN [acked EXCEPT !.registrations = @ + 1]
                ELSE [acked EXCEPT !.feedbacks = @ + 1]
    /\ UNCHANGED <<server, client, clock, registrations, feedbacks>>

(***************************************************************************)
(* POST /api/feedback                                                      *)
(***************************************************************************)
\* rating && (rating < 1 || rating > 5)
RatingOutOfRange(rating) ==
    ToBoolean(rating) /\ (LessThan(rating, 1) \/ GreaterThan(rating, 5))

\* !feedback1 && !feedback2
EmptyFeedback(body) == Falsy(body.feedback1) /\ Falsy(body.feedback2)

\* rating ? parseInt(rating) : null
CoerceRating(rating) == IF ToBoolean(rating) THEN parseInt(rating) ELSE JsNull

\* the feedback object of part_000 l.146-152
NewFeedback(body) ==
    [id |-> clock,
     feedback1 |-> IF Truthy(body.feedback1) THEN Trim(body.feedback1) ELSE Empty,
     feedback2 |-> IF Truthy(body.feedback2) THEN Trim(body.feedback2) ELSE Empty,
     rating |-> CoerceRating(body.rating),
     timestamp |-> clock]

FeedbackFile(body) ==
    /\ server = "file"
    /\ req' = [op |-> "feedback", body |-> body]
    /\ UNCHANGED <<server, client, clock, registrations, regFile, fbFile, acked>>
    /\ IF EmptyFeedback(body)
       THEN /\ res' = BadRequest([text |-> "At least one feedback field is required"])
            /\ UNCHANGED <<feedbacks, pending>>
       ELSE IF RatingOutOfRange(body.rating)
       THEN /\ res' = BadRequest([text |-> "Rating must be between 1 and 5"])
            /\ UNCHANGED <<feedbacks, pending>>
       ELSE /\ HasRoom
            /\ Cardinality(pending) < MaxPending
            /\ feedbacks' = Append(feedbacks, NewFeedback(body))
            /\ StartWrite("feedbacks.json", feedbacks',
                          [success |-> TRUE,
                           message |-> [text |-> "Feedback submitted successfully"],
                           id |-> clock])
            /\ res' = NoResponse

(***************************************************************************)
(* server.js: the same two submissions against the MongoDB collections.    *)
(* dbOk tells whether the database calls of the handler succeed; a failed  *)
(* call rejects and the handler's catch answers 500.                       *)
(***************************************************************************)
\* the document Registration.create(req.body) builds under registrationSchema:
\* trim on firstName and lastName, trim and lowercase on email, defaults
\* for interests, consent and timestamp
CastRegistration(body) ==
    [id |-> Len(registrations) + 1,
     firstName |-> Trim(body.firstName), lastName |-> Trim(body.lastName),
     email |-> ToLowerCase(Trim(body.email)), phone |-> body.phone,
     location |-> body.location, gender |-> body.gender,
     channel |-> body.channel,
     interests |-> IF body.interests # Undefined THEN body.interests ELSE <<>>,
     otherInterest |-> body.otherInterest,
     consent |-> body.consent,
     timestamp |-> clock]

\* the `required: true` validators of registrationSchema
RegistrationValid(doc) ==
    Truthy(doc.firstName) /\ Truthy(doc.lastName) /\ Truthy(doc.email)

RegisterMongo(body, dbOk) ==
    /\ server = "mongo"
    /\ req' = [op |-> "register", body |-> body]
    /\ UNCHANGED <<server, client, clock, feedbacks, regFile, fbFile, pending>>
    /\ IF MissingFields(body) # <<>>
       THEN /\ res' = BadRequest(MissingMessage(MissingFields(body)))
            /\ UNCHANGED <<registrations, acked>>
       ELSE IF TooManyInterests(body)
       THEN /\ res' = BadRequest([text |-> "Maximum 2 interests allowed"])
            /\ UNCHANGED <<registrations, acked>>
       ELSE IF ~dbOk \/ ~RegistrationValid(CastRegistration(body))
       THEN /\ res' = ServerError([text |-> "Server error during registration: "])
            /\ UNCHANGED <<registrations, acked>>
       ELSE /\ HasRoom
            /\ registrations' = Append(registrations, CastRegistration(body))
            /\ res' = [status |-> 200, success |-> TRUE,
                       message |-> [text |-> "Registration successful"],
                       id |-> Len(registrations) + 1]
            /\ acked' = [acked EXCEPT !.registrations = @ + 1]

\* the document Feedback.create({feedback1, feedback2, rating}) builds
CastFeedback(body) ==
    [id |-> Len(feedbacks) + 1,
     feedback1 |-> body.feedback1,
     feedback2 |-> body.feedback2,
     rating |-> CoerceRating(body.rating),
     timestamp |-> clock]

\* rating: { type: Number, min: 1, max: 5 }: NaN does not cast to Number,
\* null passes the validators
FeedbackValid(doc) ==
    \/ doc.rating.k = "null"
    \/ doc.rating.k = "number" /\ doc.rating.n >= 10 /\ doc.rating.n <= 50

FeedbackMongo(body, dbOk) ==
    /\ server = "mongo"
    /\ req' = [op |-> "feedback", body |-> body]
    /\ UNCHANGED <<server, client, clock, registrations, regFile, fbFile, pending>>
    /\ IF EmptyFeedback(body)
       THEN /\ res' = BadRequest([text |-> "At least one feedback field required"])
            /\ UNCHANGED <<feedbacks, acked>>
       ELSE IF RatingOutOfRange(body.rating)
       THEN /\ res' = BadRequest([text |-> "Rating must be between 1 and 5"])
            /\ UNCHANGED <<feedbacks, acked>>
       ELSE IF ~dbOk \/ ~FeedbackValid(CastFeedback(body))
       THEN /\ res' = ServerError([text |-> "Server error during feedback submission: "])
            /\ UNCHANGED <<feedbacks, acked>>
       ELSE /\ HasRoom
            /\ feedbacks' = Append(feedbacks, CastFeedback(body))
            /\ res' = [status |-> 200, success |-> TRUE,
                       message |-> [text |-> "Feedback submitted successfully"]]
            /\ acked' = [acked EXCEPT !.feedbacks = @ + 1]

(***************************************************************************)
(* Admin queries.                                                          *)
(***************************************************************************)
SearchTerms ==
    { Undefined, Blank, S3("a", "d", "a"), S3(" ", "a", "d"),
      S3("a", ".", "x"), S1("x") }

\* insertion of r into a list sorted newest first, after the records that
\* are not older (Array.prototype.sort is stable)
RECURSIVE InsertByTimestamp(_, _)
InsertByTimestamp(r, sorted) ==
    IF sorted = <<>> THEN <<r>>
    ELSE IF Head(sorted).timestamp >= r.timestamp
    THEN <<Head(sorted)>> \o InsertByTimestamp(r, Tail(sorted))
    ELSE <<r>> \o sorted

\* variant: the list is returned in stored order
Unsorted(xs) == xs

\* xs.sort((a, b) => new Date(b.timestamp) - new Date(a.timestamp))
RECURSIVE SortNewestFirst(_)
SortNewestFirst(xs) ==
    IF xs = <<>> THEN <<>>
    ELSE InsertByTimestamp(xs[Len(xs)], SortNewestFirst(SubSeq(xs, 1, Len(xs) - 1)))

\* the filter of part_000 l.198-203
MatchesSearch(reg, searchLower) ==
    \/ Includes(ToLowerCase(reg.firstName), searchLower)
    \/ Includes(ToLowerCase(reg.lastName), searchLower)
    \/ Includes(ToLowerCase(reg.email), searchLower)
    \/ Includes(ToLowerCase(reg.location), searchLower)

\* variant: the handler sorts the stored list itself instead of a copy
ListRegistrationsFileInPlace(search) ==
    /\ server = "file"
    /\ req' = [op |-> "registrations", search |-> search]
    /\ registrations' = SortNewestFirst(registrations)
    /\ LET results ==
             IF Truthy(search) /\ Len(Trim(search)) > 0
             THEN SelectSeq(registrations',
                            LAMBDA reg : MatchesSearch(reg, Trim(ToLowerCase(search))))
             ELSE registrations'
       IN  res' = [status |-> 200, list |-> results]
    /\ UNCHANGED <<server, clock, feedbacks, regFile, fbFile, pending, acked>>

ListRegistrationsFile(search) ==
    /\ server = "file"
    /\ req' = [op |-> "registrations", search |-> search]
    /\ LET results ==
             IF Truthy(search) /\ Len(Trim(search)) > 0
             THEN SelectSeq(registrations,
                            LAMBDA reg : MatchesSearch(reg, Trim(ToLowerCase(search))))
             ELSE registrations
       IN  res' = [status |-> 200, list |-> SortNewestFirst(results)]
    /\ UNCHANGED <<server, clock, store, acked>>

\* the $or filter of server.js l.193-203 on one document
MatchesRegex(reg, search) ==
    \/ RegexTest(search, reg.firstName)
    \/ RegexTest(search, reg.lastName)
    \/ RegexTest(search, reg.email)
    \/ RegexTest(search, reg.location)

\* cursor.limit(n)
Limit(xs, n) == IF Len(xs) > n THEN SubSeq(xs, 1, n) ELSE xs

RegistrationsLimit == 200
FeedbacksLimit == 100

\* the orders .sort({ timestamp: -1 }) may return: MongoDB does not fix the
\* order of documents whose sort keys are equal
SortedByTimestampDesc(xs) ==
    { [i \in 1..Len(xs) |-> xs[p[i]]] :
        p \in { q \in [1..Len(xs) -> 1..Len(xs)] :
                  /\ \A i, j \in 1..Len(xs) : i # j => q[i] # q[j]
                  /\ \A i \in 1..(Len(xs) - 1) :
                        xs[q[i]].timestamp >= xs[q[i + 1]].timestamp } }

ListRegistrationsMongo(search, dbOk) ==
    /\ server = "mongo"
    /\ req' = [op |-> "registrations", search |-> search, dbOk |-> dbOk]
    /\ IF ~dbOk
       THEN res' = [status |-> 500, list |-> <<>>]
       ELSE \E sorted \in SortedByTimestampDesc(
                              IF Truthy(search)
                              THEN SelectSeq(registrations,
                                             LAMBDA reg : MatchesRegex(reg, search))
                              ELSE registrations) :
               res' = [status |-> 200, list |-> Limit(sorted, RegistrationsLimit)]
    /\ UNCHANGED <<server, clock, store, acked>>

Separator == <<" ", "|", " ">>

\* Array.prototype.join(' | ')
RECURSIVE Join(_)
Join(parts) == IF parts = <<>> THEN <<>>
               ELSE IF Len(parts) = 1 THEN Head(parts)
               ELSE Head(parts) \o Separator \o Join(Tail(parts))

\* the view of part_000 l.223-229: the record itself plus name and text
FeedbackViewFile(feedback) ==
    [id |-> feedback.id, feedback1 |-> feedback.feedback1,
     feedback2 |-> feedback.feedback2, rating |-> feedback.rating,
     timestamp |-> feedback.timestamp,
     name |-> "Anonymous User",
     text |-> Join(SelectSeq(<<feedback.feedback1, feedback.feedback2>>,
                             LAMBDA text : Truthy(text) /\ Truthy(Trim(text))))]

ListFeedbacksFile ==
    /\ server = "file"
    /\ req' = [op |-> "feedbacks"]
    /\ res' = [status |-> 200,
               list |-> [i \in 1..Len(feedbacks) |->
                           FeedbackViewFile(SortNewestFirst(feedbacks)[i])]]
    /\ UNCHANGED <<server, client, clock, store, acked>>

NoFeedbackText == <<"N", "o", " ", "f", "e", "e", "d", "b", "a", "c", "k",
                    " ", "t", "e", "x", "t">>

\* the view of server.js l.227-233
FeedbackViewMongo(fb) ==
    [name |-> "Customer Feedback",
     text |-> IF Truthy(fb.feedback1) THEN fb.feedback1
              ELSE IF Truthy(fb.feedback2) THEN fb.feedback2
              ELSE NoFeedbackText,
     rating |-> fb.rating,
     timestamp |-> fb.timestamp,
     id |-> fb.id]

ListFeedbacksMongo(dbOk) ==
    /\ server = "mongo"
    /\ req' = [op |-> "feedbacks", dbOk |-> dbOk]
    /\ IF ~dbOk
       THEN res' = [status |-> 500, list |-> <<>>]
       ELSE \E sorted \in SortedByTimestampDesc(feedbacks) :
               res' = [status |-> 200,
                       list |-> [i \in 1..Len(Limit(sorted, FeedbacksLimit)) |->
                                   FeedbackViewMongo(sorted[i])]]
    /\ UNCHANGED <<server, client, clock, store, acked>>

\* GET /api/admin/registrations from a caller other than the modelled page
QueryRegistrationsFile(search) ==
    ListRegistrationsFile(search) /\ UNCHANGED client

QueryRegistrationsMongo(search, dbOk) ==
    ListRegistrationsMongo(search, dbOk) /\ UNCHANGED client

Admins == 3

\* variant: the counts are taken from the files instead of the lists
StatsFileFromDisk ==
    /\ server = "file"
    /\ req' = [op |-> "stats"]
    /\ res' = [status |-> 200, registrations |-> Len(regFile),
               feedbacks |-> Len(fbFile), admins |-> Admins]
    /\ UNCHANGED <<server, client, clock, store, acked>>

StatsFile ==
    /\ server = "file"
    /\ req' = [op |-> "stats"]
    /\ res' = [status |-> 200, registrations |-> Len(registrations),
               feedbacks |-> Len(feedbacks), admins |-> Admins]
    /\ UNCHANGED <<server, client, clock, store, acked>>

\* Registration.countDocuments() and Feedback.countDocuments()
StatsMongo(dbOk) ==
    /\ server = "mongo"
    /\ req' = [op |-> "stats"]
    /\ res' = IF dbOk
              THEN [status |-> 200, registrations |-> Len(registrations),
                    feedbacks |-> Len(feedbacks), admins |-> Admins]
              ELSE [status |-> 500, registrations |-> 0, feedbacks |-> 0,
                    admins |-> Admins, error |-> "Database connection issue"]
    /\ UNCHANGED <<server, client, clock, store, acked>>

(***************************************************************************)
(* POST /api/admin/login and GET /api/health.  The admin router of         *)
(* routes/feedback.js is the third program: server = "router".  Its        *)
(* collections are filled through ../models only, so they stay empty here. *)
(***************************************************************************)
AdminUsername == Str(<<"a", "d", "m", "i", "n", "@", "m", "t", "n", ".", "n", "g">>)

AdminPassword == Str(<<"1", "2", "3", "4">>)

\* === : same type and same value, no coercion
StrictEquals(a, b) == a.k = b.k /\ a.k # "NaN" /\ a = b

\* the pairs submitted: the fixed pair, the password as the number 1234,
\* and no username
Credentials ==
    { <<AdminUsername, AdminPassword>>,
      <<AdminUsername, Whole(1234)>>,
      <<JsUndefined, AdminPassword>> }

CredentialsMatch(username, password) ==
    StrictEquals(username, AdminUsername) /\ StrictEquals(password, AdminPassword)

InvalidCredentials ==
    [status |-> 401, success |-> FALSE, message |-> "Invalid credentials"]

\* the two servers hand out the demo token
LoginWithToken(username, password) ==
    /\ server \in {"file", "mongo"}
    /\ req' = [op |-> "login", username |-> username, password |-> password]
    /\ res' = IF CredentialsMatch(username, password)
              THEN [status |-> 200, success |-> TRUE,
                    message |-> "Login successful", token |-> "demo-token"]
              ELSE InvalidCredentials
    /\ UNCHANGED <<server, client, clock, store, acked>>

\* the admin router answers a successful login without a token
LoginRouter(username, password) ==
    /\ server = "router"
    /\ req' = [op |-> "login", username |-> username, password |-> password]
    /\ res' = IF CredentialsMatch(username, password)
              THEN [status |-> 200, success |-> TRUE,
                    message |-> "Login successful"]
              ELSE InvalidCredentials
    /\ UNCHANGED <<server, client, clock, store, acked>>

RouterLimit == 100

\* routes/feedback.js: a failed find is answered 500 with { error }; the
\* record's timestamp stands for createdAt, the sort key of the router
ListRegistrationsRouter(search, dbOk) ==
    /\ server = "router"
    /\ req' = [op |-> "registrations", search |-> search, dbOk |-> dbOk]
    /\ IF ~dbOk
       THEN res' = [status |-> 500, error |-> "find failed"]
       ELSE \E sorted \in SortedByTimestampDesc(
                              IF Truthy(search)
                              THEN SelectSeq(registrations,
                                             LAMBDA reg : MatchesRegex(reg, search))
                              ELSE registrations) :
               res' = [status |-> 200, list |-> Limit(sorted, RouterLimit)]
    /\ UNCHANGED <<server, client, clock, store, acked>>

FeedbackViewRouter(f) ==
    [name |-> "Customer",
     text |-> IF Truthy(f.feedback1) THEN f.feedback1
              ELSE IF Truthy(f.feedback2) THEN f.feedback2
              ELSE NoFeedbackText,
     rating |-> f.rating,
     timestamp |-> f.timestamp]

ListFeedbacksRouter(dbOk) ==
    /\ server = "router"
    /\ req' = [op |-> "feedbacks", dbOk |-> dbOk]
    /\ IF ~dbOk
       THEN res' = [status |-> 500, error |-> "find failed"]
       ELSE \E sorted \in SortedByTimestampDesc(feedbacks) :
               res' = [status |-> 200,
                       list |-> [i \in 1..Len(Limit(sorted, RouterLimit)) |->
                                   FeedbackViewRouter(sorted[i])]]
    /\ UNCHANGED <<server, client, clock, store, acked>>

HealthFile ==
    /\ server = "file"
    /\ req' = [op |-> "health"]
    /\ res' = [status |-> 200, state |-> "OK", timestamp |-> clock,
               registrations |-> Len(registrations),
               feedbacks |-> Len(feedbacks)]
    /\ UNCHANGED <<server, client, clock, store, acked>>

\* connected: mongoose.connection.readyState === 1; dbOk: the counts succeed
HealthMongo(connected, dbOk) ==
    /\ server = "mongo"
    /\ req' = [op |-> "health"]
    /\ res' = IF ~connected
              THEN [status |-> 200, state |-> "healthy",
                    database |-> "disconnected", timestamp |-> clock,
                    registrations |-> 0, feedbacks |-> 0]
              ELSE IF dbOk
              THEN [status |-> 200, state |-> "healthy",
                    database |-> "connected", timestamp |-> clock,
                    registrations |-> Len(registrations),
                    feedbacks |-> Len(feedbacks)]
              ELSE [status |-> 200, state |-> "healthy", database |-> "error"]
    /\ UNCHANGED <<server, client, clock, store, acked>>

Next ==
    \/ Tick
    \/ \E body \in RegBodies : RegisterFile(body)
    \/ \E body \in FbBodies : FeedbackFile(body)
    \/ \E body \in RegBodies, dbOk \in BOOLEAN : RegisterMongo(body, dbOk)
    \/ \E body \in FbBodies, dbOk \in BOOLEAN : FeedbackMongo(body, dbOk)
    \/ \E search \in SearchTerms : QueryRegistrationsFile(search)
    \/ \E search \in SearchTerms, dbOk \in BOOLEAN : QueryRegistrationsMongo(search, dbOk)
    \/ ListFeedbacksFile
    \/ \E dbOk \in BOOLEAN : ListFeedbacksMongo(dbOk)
    \/ StatsFile
    \/ \E dbOk \in BOOLEAN : StatsMongo(dbOk)
    \/ \E pair \in Credentials : LoginWithToken(pair[1], pair[2])
    \/ \E pair \in Credentials : LoginRouter(pair[1], pair[2])
    \/ \E search \in SearchTerms, dbOk \in BOOLEAN :
           ListRegistrationsRouter(search, dbOk)
    \/ \E dbOk \in BOOLEAN : ListFeedbacksRouter(dbOk)
    \/ HealthFile
    \/ \E connected \in BOOLEAN, dbOk \in BOOLEAN : HealthMongo(connected, dbOk)
    \/ \E w \in pending, ok \in BOOLEAN : FinishSave(w, ok)

Spec == Init /\ [][Next]_vars

(***************************************************************************)
(* The validation specification: one submission, drawn from the wide sets  *)
(* of payloads, handled by a server that starts with records of an         *)
(* earlier run already stored.                                             *)
(***************************************************************************)
Earlier == 0 - 1

LoadedRegistration == [NewRegistration(AdaBody) EXCEPT !.id = Earlier, !.timestamp = Earlier]

LoadedFeedback == [NewFeedback(FeedbackBody(Good, Undefined, Whole(4)))
                      EXCEPT !.id = Earlier, !.timestamp = Earlier]

InitLoaded ==
    /\ server \in {"file", "mongo"}
    /\ clock \in 0..MaxClock
    /\ registrations \in {<<>>, <<LoadedRegistration>>}
    /\ feedbacks \in {<<>>, <<LoadedFeedback>>}
    /\ regFile = registrations
    /\ fbFile = feedbacks
    /\ pending = {}
    /\ req = NoRequest
    /\ res = NoResponse
    /\ acked = [registrations |-> 0, feedbacks |-> 0]
    /\ client = PageClosed

FirstRequest == req = NoRequest

NextValidate ==
    \/ FirstRequest /\ \E body \in WideRegBodies : RegisterFile(body)
    \/ FirstRequest /\ \E body \in WideFbBodies : FeedbackFile(body)
    \/ FirstRequest /\ \E body \in WideRegBodies, dbOk \in BOOLEAN : RegisterMongo(body, dbOk)
    \/ FirstRequest /\ \E body \in WideFbBodies, dbOk \in BOOLEAN : FeedbackMongo(body, dbOk)
    \/ \E w \in pending, ok \in BOOLEAN : FinishSave(w, ok)

SpecValidate == InitLoaded /\ [][NextValidate]_vars

(***************************************************************************)
(* The file-backed server on a disk whose writes all succeed: what is left *)
(* is the order in which concurrent writes of one file complete.           *)
(***************************************************************************)
InitFile == Init /\ server = "file"

NextReliableDisk ==
    \/ Tick
    \/ \E body \in RegBodies : RegisterFile(body)
    \/ \E body \in FbBodies : FeedbackFile(body)
    \/ \E w \in pending : FinishSave(w, TRUE)

SpecReliableDisk == InitFile /\ [][NextReliableDisk]_vars

(***************************************************************************)
(* The admin page (src/public/api.js, admin.html): the search box with its *)
(* 300 ms debounce timer, the requests of loadRegistrations in flight and  *)
(* the body of the registrations table.  A request in flight is            *)
(* [n, search, stage, answer]: n numbers the calls of loadRegistrations,   *)
(* stage is "sent" until the server has handled it and "answered" while    *)
(* the response travels back.  The table remembers in `search` the term    *)
(* of the call that wrote it last.                                         *)
(***************************************************************************)
MaxSearches == 3

ClientTerms == {Empty, S3("a", "d", "a"), S3("z", " ", "z")}

\* the characters of the model's alphabet that encodeURIComponent escapes
PercentCodes ==
    [c \in {" ", "@", "%", "|"} |->
        CASE c = " " -> <<"%", "2", "0">>
          [] c = "@" -> <<"%", "4", "0">>
          [] c = "%" -> <<"%", "2", "5">>
          [] c = "|" -> <<"%", "7", "C">>]

RECURSIVE EncodeURIComponent(_)
EncodeURIComponent(s) ==
    IF s = <<>> THEN <<>>
    ELSE (IF Head(s) \in DOMAIN PercentCodes THEN PercentCodes[Head(s)]
          ELSE <<Head(s)>>) \o EncodeURIComponent(Tail(s))

\* the decoding of the query string by Express
RECURSIVE DecodeQuery(_)
DecodeQuery(s) ==
    IF s = <<>> THEN <<>>
    ELSE IF Len(s) >= 3 /\ \E c \in DOMAIN PercentCodes :
                               PercentCodes[c] = SubSeq(s, 1, 3)
    THEN <<CHOOSE c \in DOMAIN PercentCodes : PercentCodes[c] = SubSeq(s, 1, 3)>>
            \o DecodeQuery(SubSeq(s, 4, Len(s)))
    ELSE <<Head(s)>> \o DecodeQuery(Tail(s))

\* req.query.search for getRegistrations(searchQuery): no parameter at all
\* for a falsy term
QuerySearch(searchQuery) ==
    IF Truthy(searchQuery) THEN DecodeQuery(EncodeURIComponent(searchQuery))
    ELSE Undefined

Loading == [kind |-> "loading", rows |-> <<>>]

\* Array.prototype.join(', ')
RECURSIVE JoinComma(_)
JoinComma(items) ==
    IF items = <<>> THEN <<>>
    ELSE IF Len(items) = 1 THEN items
    ELSE <<Head(items), ", ">> \o JoinComma(Tail(items))

OrEmpty(v) == IF Truthy(v) THEN v ELSE Empty

\* the six cells of a table row
Row(reg) ==
    [name |-> OrEmpty(reg.firstName) \o <<" ">> \o OrEmpty(reg.lastName),
     gender |-> OrEmpty(reg.gender),
     email |-> OrEmpty(reg.email),
     location |-> OrEmpty(reg.location),
     channel |-> OrEmpty(reg.channel),
     interests |-> JoinComma(reg.interests)]

\* what the .then / .catch of loadRegistrations writes into the table for
\* a response; apiRequest throws unless response.ok
Rendered(answer) ==
    IF answer.status < 200 \/ answer.status > 299
    THEN [kind |-> "failed", rows |-> <<>>]
    ELSE IF Len(answer.list) = 0
    THEN [kind |-> "none found", rows |-> <<>>]
    ELSE [kind |-> "rows",
          rows |-> [i \in 1..Len(answer.list) |-> Row(answer.list[i])]]

\* the state of admin.html right after DOMContentLoaded: initializeAdminPage
\* has called loadRegistrations() and setupSearch()
PageOpened ==
    [page |-> "admin", input |-> Empty, timer |-> FALSE, issued |-> 1,
     last |-> Empty,
     flight |-> {[n |-> 1, search |-> Empty, stage |-> "sent",
                  answer |-> NoResponse]},
     table |-> Loading @@ [search |-> Empty]]

\* the input listener of setupSearch
TypeSearch(value) ==
    /\ client.page = "admin"
    /\ client.issued < MaxSearches
    /\ value # client.input
    /\ client' = [client EXCEPT !.input = value, !.timer = TRUE]
    /\ UNCHANGED <<server, clock, store, req, res, acked>>

\* the timeout callback: loadRegistrations(this.value) up to the fetch
TimerFires ==
    /\ client.page = "admin"
    /\ client.timer
    /\ client' = [client EXCEPT
                     !.timer = FALSE,
                     !.issued = @ + 1,
                     !.last = client.input,
                     !.flight = @ \cup {[n |-> client.issued + 1,
                                          search |-> client.input,
                                          stage |-> "sent",
                                          answer |-> NoResponse]},
                     !.table = Loading @@ [search |-> client.input]]
    /\ UNCHANGED <<server, clock, store, req, res, acked>>

Answered(r) ==
    client' = [client EXCEPT
                 !.flight = (@ \ {r}) \cup {[r EXCEPT !.stage = "answered",
                                                       !.answer = res']}]

\* the server handles the request r of the page
ServeSearchFile(r) ==
    /\ r \in client.flight
    /\ r.stage = "sent"
    /\ ListRegistrationsFile(QuerySearch(r.search))
    /\ Answered(r)

ServeSearchMongo(r, dbOk) ==
    /\ r \in client.flight
    /\ r.stage = "sent"
    /\ ListRegistrationsMongo(QuerySearch(r.search), dbOk)
    /\ Answered(r)

\* the response to r arrives: the .then or the .catch of loadRegistrations
Deliver(r) ==
    /\ r \in client.flight
    /\ r.stage = "answered"
    /\ client' = [client EXCEPT
                     !.flight = @ \ {r},
                     !.table = Rendered(r.answer) @@ [search |-> r.search]]
    /\ UNCHANGED <<server, clock, store, req, res, acked>>

LoadedBob == [NewRegistration(BobBody) EXCEPT !.id = 0, !.timestamp = 0]

InitClient ==
    /\ server \in {"file", "mongo"}
    /\ clock = MaxClock
    /\ registrations = <<LoadedRegistration, LoadedBob>>
    /\ feedbacks = <<>>
    /\ regFile = registrations
    /\ fbFile = feedbacks
    /\ pending = {}
    /\ req = NoRequest
    /\ res = NoResponse
    /\ acked = [registrations |-> 0, feedbacks |-> 0]
    /\ client = PageOpened

NextClient ==
    \/ \E value \in ClientTerms : TypeSearch(value)
    \/ TimerFires
    \/ \E r \in client.flight : ServeSearchFile(r)
    \/ \E r \in client.flight, dbOk \in BOOLEAN : ServeSearchMongo(r, dbOk)
    \/ \E r \in client.flight : Deliver(r)

SpecClient == InitClient /\ [][NextClient]_vars

(***************************************************************************)
(* Properties.                                                             *)
(***************************************************************************)
\* a step in which the handler of `op` ran (req names the request handled
\* last; the only other step that leaves req.op alone is Tick)
Handled(op) == req'.op = op /\ clock' = clock

\* the mandatory fields that are absent from a body or empty in it
AbsentOrEmpty(body) == {f \in StringFields : body[f] = Undefined \/ body[f] = <<>>}

IsMissingFieldsError(r) ==
    /\ r.status = 400
    /\ r.success = FALSE
    /\ "fields" \in DOMAIN r.message

IsTooManyInterestsError(r) ==
    /\ r.status = 400
    /\ r.success = FALSE
    /\ r.message.text \in {"Maximum 2 areas of interest allowed",
                           "Maximum 2 interests allowed"}

RegistrationsUnchanged == UNCHANGED <<registrations, regFile, pending>>

\* C1: a registration in which any of the seven mandatory fields is absent
\* or empty is answered 400 with a message that lists exactly the missing
\* fields, and neither the registration list nor its file changes.
C1_MissingFieldsRejected ==
    [][(Handled("register") /\ AbsentOrEmpty(req'.body) # {})
          => /\ IsMissingFieldsError(res')
             /\ Range(res'.message.fields) = AbsentOrEmpty(req'.body)
             /\ Len(res'.message.fields) = Cardinality(AbsentOrEmpty(req'.body))
             /\ RegistrationsUnchanged]_vars

\* a request with several missing fields was rejected by a server that
\* already holds a record
C1_Witness ==
    /\ req.op = "register"
    /\ Cardinality(AbsentOrEmpty(req.body)) >= 2
    /\ \E f \in StringFields : req.body[f] = <<>>
    /\ \E f \in StringFields : req.body[f] = Undefined
    /\ res.status = 400
    /\ registrations # <<>>

HasTooManyInterests(body) == body.interests # Undefined /\ Len(body.interests) > 2

StoredRegistrations == Range(registrations) \cup Range(regFile)

InterestsAtMostTwo == \A r \in StoredRegistrations : Len(r.interests) <= 2

\* C2 as stated: every registration with more than two interests is
\* answered with the TooManyInterests error and nothing is stored.
C2_AlwaysTooManyInterests ==
    [][(Handled("register") /\ HasTooManyInterests(req'.body))
          => IsTooManyInterestsError(res') /\ RegistrationsUnchanged]_vars

\* C2 (amended): a registration with more than two interests is rejected
\* with 400 and nothing is stored; the error is TooManyInterests when no
\* mandatory field is missing, and MissingFields otherwise.  Every stored
\* registration has at most two interests.
C2_TooManyInterestsRejected ==
    /\ []InterestsAtMostTwo
    /\ [][(Handled("register") /\ HasTooManyInterests(req'.body))
             => /\ RegistrationsUnchanged
                /\ IF AbsentOrEmpty(req'.body) = {}
                   THEN IsTooManyInterestsError(res')
                   ELSE IsMissingFieldsError(res')]_vars

\* a complete registration with three interests was rejected
C2_Witness ==
    /\ req.op = "register"
    /\ AbsentOrEmpty(req.body) = {}
    /\ Len(req.body.interests) = 3
    /\ res.status = 400
    /\ registrations # <<>>

IsBlank(v) == v = Undefined \/ Trim(v) = <<>>

StoredFeedbacks == Range(feedbacks) \cup Range(fbFile)

\* C3: a feedback whose two texts are both absent or blank after trimming
\* is answered 400, and no stored feedback has both texts empty.
C3_BlankFeedbackRejected ==
    /\ (req.op = "feedback" /\ IsBlank(req.body.feedback1)
                            /\ IsBlank(req.body.feedback2))
          => res.status = 400
    /\ \A fb \in StoredFeedbacks : ~(IsBlank(fb.feedback1) /\ IsBlank(fb.feedback2))

\* the numeric value of a rating lies outside 1..5
OutsideOneToFive(rating) ==
    /\ rating.k = "number"
    /\ rating.n < 10 \/ rating.n > 50

\* C4: a feedback with a text and a rating outside 1..5 (0 and negative
\* numbers included) is answered with the RatingOutOfRange error.
C4_RatingOutOfRangeRejected ==
    (req.op = "feedback" /\ ~IsBlank(req.body.feedback1)
                        /\ OutsideOneToFive(req.body.rating))
       => /\ res.status = 400
          /\ res.message.text = "Rating must be between 1 and 5"

\* C5: a complete registration with an acceptable number of interests is
\* not rejected because its email address is already stored.
C5_DuplicateEmailAccepted ==
    (/\ req.op = "register"
     /\ AbsentOrEmpty(req.body) = {}
     /\ ~HasTooManyInterests(req.body)
     /\ \E r \in Range(registrations) : r.email = req.body.email)
       => res.status # 400

\* the stored registrations the claimed search semantics select
ClaimedMatches(search) ==
    IF search = Undefined \/ Trim(search) = <<>>
    THEN registrations
    ELSE SelectSeq(registrations,
                   LAMBDA r : \/ Includes(ToLowerCase(r.firstName), ToLowerCase(search))
                              \/ Includes(ToLowerCase(r.lastName), ToLowerCase(search))
                              \/ Includes(ToLowerCase(r.email), ToLowerCase(search))
                              \/ Includes(ToLowerCase(r.location), ToLowerCase(search)))

\* the number of times x occurs in the sequence xs
Count(xs, x) == Cardinality({i \in DOMAIN xs : xs[i] = x})

SameRecords(xs, ys) ==
    /\ Len(xs) = Len(ys)
    /\ \A x \in Range(xs) \cup Range(ys) : Count(xs, x) = Count(ys, x)

\* C6: listRegistrations returns all records for an absent or blank term,
\* and otherwise exactly the records of which firstName, lastName, email
\* or location contains the lower-cased term literally.
C6_SearchIsLiteralSubstring ==
    (req.op = "registrations" /\ res.status = 200)
       => SameRecords(res.list, ClaimedMatches(req.search))

\* C7: the list of registrations returned, with or without a search term,
\* is ordered by timestamp, newest first.
C7_NewestFirst ==
    (req.op = "registrations" /\ "list" \in DOMAIN res)
       => \A i \in 1..(Len(res.list) - 1) :
             res.list[i].timestamp >= res.list[i + 1].timestamp

\* a search returned two records created at different instants
C7_Witness ==
    /\ req.op = "registrations"
    /\ "list" \in DOMAIN res
    /\ Truthy(req.search)
    /\ Len(res.list) = 2
    /\ res.list[1].timestamp > res.list[2].timestamp

\* C8: success is answered only after the file holds the new record; a
\* failed write is answered with 500.
C8_SuccessOnlyAfterDurableWrite ==
    req.op = "saved"
       => IF req.written
          THEN /\ res.status = 200
               /\ \E r \in (IF req.file = "registrations.json"
                              THEN Range(regFile) ELSE Range(fbFile)) :
                     r.id = res.id
          ELSE res.status = 500

\* C9: getStats returns the exact numbers of stored registrations and
\* feedbacks, and these count every submission answered with success.
C9_StatsAreExactCounts ==
    (req.op = "stats" /\ res.status = 200)
       => /\ res.registrations = Len(registrations)
          /\ res.feedbacks = Len(feedbacks)
          /\ res.registrations >= acked.registrations
          /\ res.feedbacks >= acked.feedbacks

\* stats were returned after submissions of both kinds had succeeded
C9_Witness ==
    /\ req.op = "stats"
    /\ res.status = 200
    /\ acked.registrations >= 1
    /\ acked.feedbacks >= 1
    /\ res.registrations = 1
    /\ res.feedbacks = 1

\* both texts of fb can be read back from the view v
Recoverable(v, fb) ==
    \/ /\ {"feedback1", "feedback2"} \subseteq DOMAIN v
       /\ v.feedback1 = fb.feedback1
       /\ v.feedback2 = fb.feedback2
    \/ /\ Truthy(fb.feedback1) => Includes(v.text, fb.feedback1)
       /\ Truthy(fb.feedback2) => Includes(v.text, fb.feedback2)

PlaceholderNames == {"Anonymous User", "Customer Feedback"}

\* C10: every stored feedback has a view in listFeedbacks with the fixed
\* placeholder name, a non-empty display text, and both of its texts
\* recoverable.
C10_FeedbackViewKeepsBothTexts ==
    (req.op = "feedbacks" /\ res.status = 200)
       => /\ Len(res.list) = Len(feedbacks)
          /\ \A fb \in Range(feedbacks) :
                \E v \in Range(res.list) :
                   /\ v.id = fb.id
                   /\ v.name \in PlaceholderNames
                   /\ v.text # <<>>
                   /\ (Truthy(fb.feedback1) /\ Truthy(fb.feedback2))
                         => Recoverable(v, fb)
          /\ \A v, w \in Range(res.list) : v.name = w.name

(***************************************************************************)
(* C11: a login answers 200 with a token exactly when the submitted pair   *)
(* equals the fixed pair; every other pair is answered 401 with no token.  *)
(***************************************************************************)
C11_LoginTokenIffFixedPair ==
    req.op = "login" =>
        IF req.username = AdminUsername /\ req.password = AdminPassword
        THEN res.status = 200 /\ "token" \in DOMAIN res
        ELSE res.status = 401 /\ "token" \notin DOMAIN res

(***************************************************************************)
(* C12: when the storage is unavailable at read time, the admin list       *)
(* operations answer with an empty result and a non-error status.          *)
(***************************************************************************)
C12_UnavailableStorageListsEmpty ==
    (req.op \in {"registrations", "feedbacks"} /\ "dbOk" \in DOMAIN req
                                                /\ ~req.dbOk)
        => /\ res.status < 400
           /\ "list" \in DOMAIN res
           /\ res.list = <<>>

\* no two records of the list xs carry the same id
DistinctIds(xs) ==
    \A i, j \in DOMAIN xs : i # j => xs[i].id # xs[j].id

(***************************************************************************)
(* C13: in the file-backed store the ids of the registrations are          *)
(* pairwise distinct, and so are the ids of the feedbacks, also for two    *)
(* submissions made in the same clock tick.                                *)
(***************************************************************************)
C13_IdsPairwiseDistinct ==
    server = "file" => DistinctIds(registrations) /\ DistinctIds(feedbacks)

\* null or one of the integers 1..5 (numbers are held in tenths)
NullOrOneToFive(rating) ==
    \/ rating = JsNull
    \/ rating \in {Whole(i) : i \in 1..5}

(***************************************************************************)
(* C14: the rating of every stored feedback is null or an integer from 1   *)
(* to 5, whatever accepted payload it came from: numeric strings, 0,       *)
(* non-integers and non-numeric values included.                           *)
(***************************************************************************)
C14_StoredRatingNullOrOneToFive ==
    /\ \A fb \in Range(feedbacks) : NullOrOneToFive(fb.rating)
    /\ \A fb \in Range(fbFile) : NullOrOneToFive(fb.rating)

\* each file holds what a save of the list in memory writes
FilesHoldLists ==
    /\ regFile = Jsonify(registrations)
    /\ fbFile = Jsonify(feedbacks)

(***************************************************************************)
(* C15: under every interleaving of concurrent submissions to the          *)
(* file-backed store, once all pending writes have completed the file      *)
(* holds exactly the list in memory.  Stated for a disk that never fails.  *)
(***************************************************************************)
C15_FileMatchesListWhenQuiescent ==
    (server = "file" /\ pending = {}) => FilesHoldLists

\* new is old, or old with one record appended
AppendedTo(old, new) ==
    \/ new = old
    \/ Len(new) = Len(old) + 1 /\ SubSeq(new, 1, Len(old)) = old

\* the operations that only read the store
ReadOps == {"stats", "registrations", "feedbacks", "health", "login"}

(***************************************************************************)
(* C16: stored records are append-only.  Across register, feedback, stats, *)
(* list registrations, list feedbacks, health and login no stored record   *)
(* is removed or changed in any field, and the reading operations leave    *)
(* the content and the order of both collections as they were.             *)
(***************************************************************************)
C16_StoredRecordsAppendOnly ==
    [][/\ AppendedTo(registrations, registrations')
       /\ AppendedTo(feedbacks, feedbacks')
       /\ (Handled("register") \/ Handled("saved")) => feedbacks' = feedbacks
       /\ (Handled("feedback") \/ Handled("saved")) => registrations' = registrations
       /\ (\E op \in ReadOps : Handled(op))
             => UNCHANGED <<registrations, feedbacks>>]_vars

\* the file-backed server returned two registrations in an order that is
\* not the stored one, and the stored list is still in submission order
C16_Witness ==
    /\ server = "file"
    /\ req.op = "registrations"
    /\ Len(registrations) = 2
    /\ registrations[1].timestamp < registrations[2].timestamp
    /\ res.list = <<registrations[2], registrations[1]>>

(***************************************************************************)
(* C17: in the file-backed server the list in memory never holds two       *)
(* records with the identical email string, under every interleaving of    *)
(* concurrent registrations: the lookup and the push run in one step.      *)
(***************************************************************************)
C17_NoIdenticalEmailTwice ==
    server = "file"
        => \A i, j \in DOMAIN registrations :
              i # j => registrations[i].email # registrations[j].email

\* a second registration with the same email was refused while the write of
\* the first one was still in flight
C17_Witness ==
    /\ server = "file"
    /\ req.op = "register"
    /\ res.status = 400
    /\ res.message = [text |-> "Email already registered"]
    /\ \E w \in pending :
          /\ w.file = "registrations.json"
          /\ w.data[Len(w.data)].email = req.body.email
    /\ \A r \in Range(regFile) : r.email # req.body.email

(***************************************************************************)
(* C18: in the admin page, once every issued request has completed, in     *)
(* whatever order the responses arrived, the registrations table shows     *)
(* the results of the search term issued last.                             *)
(***************************************************************************)
C18_TableShowsLatestSearch ==
    (client.page = "admin" /\ client.flight = {})
        => /\ client.table.kind # "loading"
           /\ client.table.search = client.last

====
